---- MODULE Spec2Model ----
\* Model of the ChatInterface React component of llm-council.
\* The repository holds two copies of the component: src/unnamed/part_000
\* (takes the isLoading prop, renders stages 1, 2, 3) and
\* src/frontend/src/components/ChatInterface.jsx (no isLoading prop, renders
\* stages 1 and 3). The variable `component` says which copy is mounted.
\* Text is modelled as a sequence of one-character strings, so that trim(),
\* template-literal concatenation and "contains" are computed, not assumed.
EXTENDS Integers, Sequences, FiniteSets, TLC

\* ---------------------------------------------------------------- bounds
MaxLen == 2          \* longest draft typed into the textarea
MaxFiles == 3        \* most attachments tracked plus uploads in flight
MaxInFlight == 2     \* most removal calls outstanding at once
MaxClock == 1        \* last reading of Date.now() (readings 0..MaxClock)

\* ------------------------------------------------------------ value sets
Components == {"part_000", "jsx"}
Whitespace == {" ", "\n"}
Alphabet == {" ", "a"}
Drafts == UNION {[1..n -> Alphabet] : n \in 0..MaxLen}
Keys == {"Enter", "a"}
FileNames == {"a.pdf", "b.txt"}
NoFile == "no-file"
Conversations == {"none", "some"}
Reasons == {<<>>, <<"5", "0", "0">>}

EMPTY == <<>>
UPLOADING == <<"U", "p", "l", "o", "a", "d", "i", "n", "g", ".", ".", ".">>
ERROR_PREFIX == <<"E", "r", "r", "o", "r", ":", " ">>
ERROR_REMOVING_PREFIX ==
    <<"E", "r", "r", "o", "r", " ", "r", "e", "m", "o", "v", "i", "n", "g",
      " ", "f", "i", "l", "e", ":", " ">>

VARIABLES
    component,      \* which copy of ChatInterface is mounted
    input,          \* useState('') draft text
    isLoading,      \* the parent's isLoading signal (prop of part_000)
    uploadStatus,   \* useState('') status string
    uploadedFiles,  \* useState([]) sequence of [name, id]
    uploading,      \* onUploadFile calls awaiting their result (files)
    removing,       \* onDeleteFile calls awaiting their result (filenames)
    now,            \* the reading of Date.now()
    msg,            \* one assistant message of conversation.messages
    event,          \* the last event handled and what it passed outwards
    conversation,   \* the conversation prop: "none" (absent) or "some"
    backend         \* the file store behind onUploadFile / onDeleteFile

vars == <<component, input, isLoading, uploadStatus, uploadedFiles,
          uploading, removing, now, msg, event, conversation, backend>>

envVars == <<conversation, backend>>

\* -------------------------------------------------------- String.trim()
RECURSIVE TrimStart(_)
TrimStart(s) ==
    IF s # <<>> /\ Head(s) \in Whitespace THEN TrimStart(Tail(s)) ELSE s

RECURSIVE TrimEnd(_)
TrimEnd(s) ==
    IF s # <<>> /\ s[Len(s)] \in Whitespace
    THEN TrimEnd(SubSeq(s, 1, Len(s) - 1))
    ELSE s

trim(s) == TrimEnd(TrimStart(s))

\* JavaScript truthiness of a string: the empty string is falsy.
StrTruthy(s) == Len(s) > 0

\* t occurs in s as a contiguous substring (String.includes).
Contains(s, t) ==
    \E i \in 0..(Len(s) - Len(t)) : SubSeq(s, i + 1, i + Len(t)) = t

\* ------------------------------------------------------ InputController
\* A handleSubmit that passes the trimmed draft to onSendMessage.
handleSubmitResultTrimmed(d, loading) ==
    IF StrTruthy(trim(d)) /\ ~loading
    THEN [sent |-> <<trim(d)>>, input |-> EMPTY]
    ELSE [sent |-> <<>>, input |-> d]

\* handleSubmit of part_000: what it passes to onSendMessage and the draft
\* it leaves, from draft d and the isLoading prop.
handleSubmitResult(d, loading) ==
    IF StrTruthy(trim(d)) /\ ~loading
    THEN [sent |-> <<d>>, input |-> EMPTY]
    ELSE [sent |-> <<>>, input |-> d]

\* handleSubmit of ChatInterface.jsx: the component has no isLoading prop.
handleSubmitResultJsx(d, loading) ==
    IF StrTruthy(trim(d))
    THEN [sent |-> <<d>>, input |-> EMPTY]
    ELSE [sent |-> <<>>, input |-> d]

SubmitResult(d, loading) ==
    IF component = "part_000"
    THEN handleSubmitResult(d, loading)
    ELSE handleSubmitResultJsx(d, loading)

\* disabled attribute of the Send button.
SendDisabledPart000 == ~StrTruthy(trim(input)) \/ isLoading
SendDisabledJsx == ~StrTruthy(trim(input))
SendDisabled ==
    IF component = "part_000" THEN SendDisabledPart000 ELSE SendDisabledJsx

filesVars == <<uploadStatus, uploadedFiles, uploading, removing, now>>

\* textarea onChange: setInput(e.target.value)
onChange ==
    /\ \E v \in Drafts : input' = v
    /\ event' = [kind |-> "change"]
    /\ UNCHANGED <<component, isLoading, msg>>
    /\ UNCHANGED filesVars
    /\ UNCHANGED envVars

\* A handleSubmit that also clears the attachments when it sends.
handleSubmitClearsFiles ==
    /\ component = "part_000"
    /\ input' = handleSubmitResult(input, isLoading).input
    /\ event' = [kind |-> "submit",
                 sent |-> handleSubmitResult(input, isLoading).sent]
    /\ uploadedFiles' =
           IF handleSubmitResult(input, isLoading).sent # <<>>
           THEN <<>>
           ELSE uploadedFiles
    /\ UNCHANGED <<component, isLoading, msg>>
    /\ UNCHANGED <<uploadStatus, uploading, removing, now>>
    /\ UNCHANGED envVars

\* form onSubmit (part_000)
handleSubmit ==
    /\ component = "part_000"
    /\ input' = handleSubmitResult(input, isLoading).input
    /\ event' = [kind |-> "submit",
                 sent |-> handleSubmitResult(input, isLoading).sent]
    /\ UNCHANGED <<component, isLoading, msg>>
    /\ UNCHANGED filesVars
    /\ UNCHANGED envVars

\* Send button onClick (ChatInterface.jsx)
handleSubmitJsx ==
    /\ component = "jsx"
    /\ input' = handleSubmitResultJsx(input, isLoading).input
    /\ event' = [kind |-> "submit",
                 sent |-> handleSubmitResultJsx(input, isLoading).sent]
    /\ UNCHANGED <<component, isLoading, msg>>
    /\ UNCHANGED filesVars
    /\ UNCHANGED envVars

\* A handleKeyDown that forgets the test of e.shiftKey.
handleKeyDownAnyEnter ==
    /\ component = "part_000"
    /\ \E key \in Keys, shiftKey \in BOOLEAN :
        LET r == IF key = "Enter"
                 THEN handleSubmitResult(input, isLoading)
                 ELSE [sent |-> <<>>, input |-> input]
        IN /\ input' = r.input
           /\ event' = [kind |-> "keydown", key |-> key,
                        shiftKey |-> shiftKey, sent |-> r.sent]
    /\ UNCHANGED <<component, isLoading, msg>>
    /\ UNCHANGED filesVars
    /\ UNCHANGED envVars

\* textarea onKeyDown (part_000)
handleKeyDown ==
    /\ component = "part_000"
    /\ \E key \in Keys, shiftKey \in BOOLEAN :
        LET r == IF key = "Enter" /\ ~shiftKey
                 THEN handleSubmitResult(input, isLoading)
                 ELSE [sent |-> <<>>, input |-> input]
        IN /\ input' = r.input
           /\ event' = [kind |-> "keydown", key |-> key,
                        shiftKey |-> shiftKey, sent |-> r.sent]
    /\ UNCHANGED <<component, isLoading, msg>>
    /\ UNCHANGED filesVars
    /\ UNCHANGED envVars

\* textarea onKeyDown (ChatInterface.jsx)
handleKeyDownJsx ==
    /\ component = "jsx"
    /\ \E key \in Keys, shiftKey \in BOOLEAN :
        LET r == IF key = "Enter" /\ ~shiftKey
                 THEN handleSubmitResultJsx(input, isLoading)
                 ELSE [sent |-> <<>>, input |-> input]
        IN /\ input' = r.input
           /\ event' = [kind |-> "keydown", key |-> key,
                        shiftKey |-> shiftKey, sent |-> r.sent]
    /\ UNCHANGED <<component, isLoading, msg>>
    /\ UNCHANGED filesVars
    /\ UNCHANGED envVars

\* The parent re-renders the component with a new isLoading signal.
SetIsLoading ==
    /\ isLoading' = ~isLoading
    /\ event' = [kind |-> "props"]
    /\ UNCHANGED <<component, input, msg>>
    /\ UNCHANGED filesVars
    /\ UNCHANGED envVars

\* ---------------------------------------------------- AttachmentTracker
RemoveAt(seq, i) == SubSeq(seq, 1, i - 1) \o SubSeq(seq, i + 1, Len(seq))

inputVars == <<component, input, isLoading, msg>>

\* A handleFileChange whose new upload supersedes the one in flight.
handleFileChangeCancelsPrevious ==
    /\ \E file \in FileNames \cup {NoFile} :
        IF file = NoFile
        THEN /\ UNCHANGED <<uploadStatus, uploading>>
             /\ event' = [kind |-> "fileChange", file |-> NoFile]
        ELSE /\ Len(uploadedFiles) + Len(uploading) < MaxFiles
             /\ uploadStatus' = UPLOADING
             /\ uploading' = <<file>>
             /\ event' = [kind |-> "fileChange", file |-> file]
    /\ UNCHANGED <<uploadedFiles, removing, now>>
    /\ UNCHANGED inputVars
    /\ UNCHANGED envVars

\* file input onChange up to the await: picks e.target.files?.[0], returns
\* when there is none, else sets the status and calls onUploadFile(file).
handleFileChange ==
    /\ \E file \in FileNames \cup {NoFile} :
        IF file = NoFile
        THEN /\ UNCHANGED <<uploadStatus, uploading>>
             /\ event' = [kind |-> "fileChange", file |-> NoFile]
        ELSE /\ Len(uploadedFiles) + Len(uploading) < MaxFiles
             /\ uploadStatus' = UPLOADING
             /\ uploading' = Append(uploading, file)
             /\ event' = [kind |-> "fileChange", file |-> file]
    /\ UNCHANGED <<uploadedFiles, removing, now>>
    /\ UNCHANGED inputVars
    /\ UNCHANGED envVars

\* An UploadResolved that names the entry after the chosen file instead of
\* the filename the collaborator reported.
UploadResolvedNamesFile ==
    /\ \E i \in 1..Len(uploading), f \in FileNames :
        /\ uploadStatus' = EMPTY
        /\ uploadedFiles' =
               Append(uploadedFiles, [name |-> uploading[i], id |-> now])
        /\ uploading' = RemoveAt(uploading, i)
        /\ event' = [kind |-> "uploadResolved", file |-> uploading[i],
                     call |-> i, filename |-> f]
    /\ UNCHANGED <<removing, now>>
    /\ UNCHANGED inputVars
    /\ UNCHANGED envVars

\* handleFileChange after the await, onUploadFile resolved with
\* {filename: f}: clears the status and appends {name, id: Date.now()}.
UploadResolved ==
    /\ \E i \in 1..Len(uploading), f \in FileNames :
        /\ uploadStatus' = EMPTY
        /\ uploadedFiles' = Append(uploadedFiles, [name |-> f, id |-> now])
        /\ uploading' = RemoveAt(uploading, i)
        /\ event' = [kind |-> "uploadResolved", file |-> uploading[i],
                     call |-> i, filename |-> f]
    /\ UNCHANGED <<removing, now>>
    /\ UNCHANGED inputVars
    /\ UNCHANGED envVars

\* An UploadRejected whose status leaves out error.message.
UploadRejectedGeneric ==
    /\ \E i \in 1..Len(uploading), r \in Reasons :
        /\ uploadStatus' = ERROR_PREFIX
        /\ uploading' = RemoveAt(uploading, i)
        /\ event' = [kind |-> "uploadRejected", file |-> uploading[i],
                     reason |-> r]
    /\ UNCHANGED <<uploadedFiles, removing, now>>
    /\ UNCHANGED inputVars
    /\ UNCHANGED envVars

\* handleFileChange after the await, onUploadFile rejected with an error
\* whose message is r: the catch block sets the status.
UploadRejected ==
    /\ \E i \in 1..Len(uploading), r \in Reasons :
        /\ uploadStatus' = ERROR_PREFIX \o r
        /\ uploading' = RemoveAt(uploading, i)
        /\ event' = [kind |-> "uploadRejected", file |-> uploading[i],
                     reason |-> r]
    /\ UNCHANGED <<uploadedFiles, removing, now>>
    /\ UNCHANGED inputVars
    /\ UNCHANGED envVars

\* remove-file button of a chip, up to the await: onDeleteFile(file.name).
handleRemoveFile ==
    /\ Len(removing) < MaxInFlight
    /\ \E i \in 1..Len(uploadedFiles) :
        /\ removing' = Append(removing, uploadedFiles[i].name)
        /\ event' = [kind |-> "removeFile",
                     filename |-> uploadedFiles[i].name]
    /\ UNCHANGED <<uploadStatus, uploadedFiles, uploading, now>>
    /\ UNCHANGED inputVars
    /\ UNCHANGED envVars

\* seq without its first entry named name.
RECURSIVE RemoveFirst(_, _)
RemoveFirst(seq, name) ==
    IF seq = <<>> THEN <<>>
    ELSE IF Head(seq).name = name THEN Tail(seq)
    ELSE <<Head(seq)>> \o RemoveFirst(Tail(seq), name)

\* seq without any entry named name, the others in their order.
RECURSIVE RemoveAll(_, _)
RemoveAll(seq, name) ==
    IF seq = <<>> THEN <<>>
    ELSE IF Head(seq).name = name THEN RemoveAll(Tail(seq), name)
    ELSE <<Head(seq)>> \o RemoveAll(Tail(seq), name)

\* A DeleteResolved that removes the first matching entry only.
DeleteResolvedFirstOnly ==
    /\ \E i \in 1..Len(removing) :
        /\ uploadedFiles' = RemoveFirst(uploadedFiles, removing[i])
        /\ removing' = RemoveAt(removing, i)
        /\ event' = [kind |-> "deleteResolved", filename |-> removing[i],
                     before |-> uploadedFiles]
    /\ UNCHANGED <<uploadStatus, uploading, now>>
    /\ UNCHANGED inputVars
    /\ UNCHANGED envVars

\* handleRemoveFile after the await, onDeleteFile resolved:
\* prev.filter(f => f.name !== filename).
DeleteResolved ==
    /\ \E i \in 1..Len(removing) :
        LET keep(f) == f.name # removing[i]
        IN /\ uploadedFiles' = SelectSeq(uploadedFiles, keep)
           /\ removing' = RemoveAt(removing, i)
           /\ event' = [kind |-> "deleteResolved", filename |-> removing[i],
                        before |-> uploadedFiles]
    /\ UNCHANGED <<uploadStatus, uploading, now>>
    /\ UNCHANGED inputVars
    /\ UNCHANGED envVars

\* A DeleteRejected that drops the chip although the delete failed.
DeleteRejectedOptimistic ==
    /\ \E i \in 1..Len(removing), r \in Reasons :
        /\ uploadStatus' = ERROR_REMOVING_PREFIX \o r
        /\ uploadedFiles' = RemoveAll(uploadedFiles, removing[i])
        /\ removing' = RemoveAt(removing, i)
        /\ event' = [kind |-> "deleteRejected", filename |-> removing[i],
                     reason |-> r]
    /\ UNCHANGED <<uploading, now>>
    /\ UNCHANGED inputVars
    /\ UNCHANGED envVars

\* handleRemoveFile after the await, onDeleteFile rejected with an error
\* whose message is r.
DeleteRejected ==
    /\ \E i \in 1..Len(removing), r \in Reasons :
        /\ uploadStatus' = ERROR_REMOVING_PREFIX \o r
        /\ removing' = RemoveAt(removing, i)
        /\ event' = [kind |-> "deleteRejected", filename |-> removing[i],
                     reason |-> r]
    /\ UNCHANGED <<uploadedFiles, uploading, now>>
    /\ UNCHANGED inputVars
    /\ UNCHANGED envVars

\* The clock read by Date.now() advances.
Tick ==
    /\ now < MaxClock
    /\ now' = now + 1
    /\ event' = [kind |-> "tick"]
    /\ UNCHANGED <<uploadStatus, uploadedFiles, uploading, removing>>
    /\ UNCHANGED inputVars
    /\ UNCHANGED envVars

\* -------------------------------------------------------- StageRenderer
\* JavaScript values of the message fields, tagged by type.
Undefined == [t |-> "undefined"]
Str(s) == [t |-> "str", v |-> s]
Stage1Values == {Undefined, [t |-> "obj", n |-> 0], [t |-> "obj", n |-> 2]}
Stage2Values == {Undefined, [t |-> "obj", n |-> 0], [t |-> "obj", n |-> 2]}
Stage3Values ==
    {Undefined} \cup
    {[t |-> "obj", response |-> r] : r \in {Undefined, Str(<<>>), Str(<<"a">>)}}
LoadingValues ==
    {Undefined} \cup
    {[t |-> "obj", stage1 |-> a, stage2 |-> b, stage3 |-> c] :
        a \in BOOLEAN, b \in BOOLEAN, c \in BOOLEAN}
Messages ==
    [loading : LoadingValues, stage1 : Stage1Values,
     stage2 : Stage2Values, stage3 : Stage3Values]
NewMessage ==
    [loading |-> Undefined, stage1 |-> Undefined,
     stage2 |-> Undefined, stage3 |-> Undefined]

\* JavaScript truthiness.
Truthy(v) ==
    CASE v.t = "undefined" -> FALSE
      [] v.t = "str" -> Len(v.v) > 0
      [] v.t = "obj" -> TRUE

\* msg.loading?.stageN
LoadingFlag(m, stage) ==
    IF m.loading.t = "obj" THEN m.loading[stage] ELSE FALSE

\* msg.stage3?.response
Stage3Response(m) ==
    IF m.stage3.t = "obj" THEN m.stage3.response ELSE Undefined

\* A stage-1 spinner shown for as long as stage-1 data is missing.
Stage1SpinnerWhileNoData(m) == LoadingFlag(m, "stage1") \/ ~Truthy(m.stage1)
\* A stage-1 spinner that stage-1 data suppresses.
Stage1SpinnerDataWins(m) == LoadingFlag(m, "stage1") /\ ~Truthy(m.stage1)
Stage1Spinner(m) == LoadingFlag(m, "stage1")
Stage1Shown(m) == Truthy(m.stage1)
Stage2Spinner(m) == LoadingFlag(m, "stage2")
Stage2Shown(m) == Truthy(m.stage2)
\* A stage-3 spinner that follows the loading flag alone.
Stage3SpinnerFlagOnly(m) == LoadingFlag(m, "stage3")
Stage3Spinner(m) == LoadingFlag(m, "stage3") /\ ~Truthy(Stage3Response(m))
Stage3Shown(m) == Truthy(m.stage3)

\* ChatInterface.jsx renders stage 1 and stage 3 only.
Stage1SpinnerJsx(m) == LoadingFlag(m, "stage1")
Stage1ShownJsx(m) == Truthy(m.stage1)
Stage3SpinnerJsx(m) == LoadingFlag(m, "stage3") /\ ~Truthy(Stage3Response(m))
Stage3ShownJsx(m) == Truthy(m.stage3)

\* What the mounted component renders for stage n of the message.
Spinner(n) ==
    IF component = "part_000"
    THEN CASE n = 1 -> Stage1Spinner(msg)
           [] n = 2 -> Stage2Spinner(msg)
           [] n = 3 -> Stage3Spinner(msg)
    ELSE CASE n = 1 -> Stage1SpinnerJsx(msg)
           [] n = 2 -> FALSE
           [] n = 3 -> Stage3SpinnerJsx(msg)

Shown(n) ==
    IF component = "part_000"
    THEN CASE n = 1 -> Stage1Shown(msg)
           [] n = 2 -> Stage2Shown(msg)
           [] n = 3 -> Stage3Shown(msg)
    ELSE CASE n = 1 -> Stage1ShownJsx(msg)
           [] n = 2 -> FALSE
           [] n = 3 -> Stage3ShownJsx(msg)

\* The elements the assistant-message block of part_000 renders for message
\* m, in document order, grouped by stage.
RenderStagesPart000(m) ==
    << (IF Stage1Spinner(m) THEN <<"spinner1">> ELSE <<>>) \o
       (IF Stage1Shown(m) THEN <<"stage1">> ELSE <<>>),
       (IF Stage2Spinner(m) THEN <<"spinner2">> ELSE <<>>) \o
       (IF Stage2Shown(m) THEN <<"stage2">> ELSE <<>>),
       (IF Stage3Spinner(m) THEN <<"spinner3">> ELSE <<>>) \o
       (IF Stage3Shown(m) THEN <<"stage3">> ELSE <<>>) >>

\* The same for ChatInterface.jsx, which has no stage-2 block.
RenderStagesJsx(m) ==
    << (IF Stage1SpinnerJsx(m) THEN <<"spinner1">> ELSE <<>>) \o
       (IF Stage1ShownJsx(m) THEN <<"stage1">> ELSE <<>>),
       <<>>,
       (IF Stage3SpinnerJsx(m) THEN <<"spinner3">> ELSE <<>>) \o
       (IF Stage3ShownJsx(m) THEN <<"stage3">> ELSE <<>>) >>

RenderedStage(m, n) ==
    IF component = "part_000"
    THEN RenderStagesPart000(m)[n]
    ELSE RenderStagesJsx(m)[n]

Rendered(m) ==
    RenderedStage(m, 1) \o RenderedStage(m, 2) \o RenderedStage(m, 3)

\* The external orchestrator sets or clears the loading record of the message.
LoadingUpdate ==
    /\ \E l \in LoadingValues : l # msg.loading /\ msg' = [msg EXCEPT !.loading = l]
    /\ event' = [kind |-> "conversation"]
    /\ UNCHANGED <<component, input, isLoading>>
    /\ UNCHANGED filesVars
    /\ UNCHANGED envVars

\* The external orchestrator delivers the data of one stage.
StageDataUpdate ==
    /\ \/ \E v \in Stage1Values : v # msg.stage1 /\ msg' = [msg EXCEPT !.stage1 = v]
       \/ \E v \in Stage2Values : v # msg.stage2 /\ msg' = [msg EXCEPT !.stage2 = v]
       \/ \E v \in Stage3Values : v # msg.stage3 /\ msg' = [msg EXCEPT !.stage3 = v]
    /\ event' = [kind |-> "conversation"]
    /\ UNCHANGED <<component, input, isLoading>>
    /\ UNCHANGED filesVars
    /\ UNCHANGED envVars

\* ----------------------------------------------------- ConversationView
\* The parent selects a conversation or has none selected.
SelectConversation ==
    /\ \E c \in Conversations : c # conversation /\ conversation' = c
    /\ event' = [kind |-> "props"]
    /\ UNCHANGED <<component, input, isLoading, msg, backend>>
    /\ UNCHANGED filesVars

\* The top-level loading-indicator of part_000: the early return for a
\* missing conversation renders the welcome text only.
LoadingIndicatorPart000 == conversation = "some" /\ isLoading

\* ChatInterface.jsx has no loading-indicator in its messages-container.
LoadingIndicatorJsx == FALSE

LoadingIndicator ==
    IF component = "part_000"
    THEN LoadingIndicatorPart000
    ELSE LoadingIndicatorJsx

\* The file store before any call: no file stored, no call being served.
NoBackend == [files |-> {}, uploads |-> <<>>, deletes |-> <<>>]

\* The names of the tracked attachments.
TrackedNames == {uploadedFiles[i].name : i \in 1..Len(uploadedFiles)}

\* ------------------------------------------------- component and backend
\* The component's calls together with a file store keyed by filename that
\* serves each call atomically at some moment between the call and the
\* delivery of its result, and that changes nothing when it reports failure.
\* backend.uploads and backend.deletes hold, for every call in flight, whether
\* it is still "pending" or was served "ok" or "failed".

\* handleFileChange up to the await, the call reaching the backend.
BackendFileChange ==
    /\ \E file \in FileNames :
        /\ Len(uploadedFiles) + Len(uploading) < MaxFiles
        /\ uploadStatus' = UPLOADING
        /\ uploading' = Append(uploading, file)
        /\ backend' = [backend EXCEPT !.uploads = Append(@, "pending")]
        /\ event' = [kind |-> "fileChange", file |-> file]
    /\ UNCHANGED <<uploadedFiles, removing, now, conversation>>
    /\ UNCHANGED inputVars

\* The backend serves one pending upload: it stores the file under its name,
\* or fails and stores nothing.
BackendServeUpload ==
    /\ \E i \in 1..Len(uploading) :
        /\ backend.uploads[i] = "pending"
        /\ \/ backend' = [backend EXCEPT !.files = @ \cup {uploading[i]},
                                         !.uploads[i] = "ok"]
           \/ backend' = [backend EXCEPT !.uploads[i] = "failed"]
    /\ event' = [kind |-> "backend"]
    /\ UNCHANGED <<conversation>>
    /\ UNCHANGED filesVars
    /\ UNCHANGED inputVars

\* handleFileChange after the await: the result of a served upload arrives,
\* {filename: the stored name} or an error with message r.
BackendUploadDelivered ==
    /\ \E i \in 1..Len(uploading) :
        /\ backend.uploads[i] # "pending"
        /\ IF backend.uploads[i] = "ok"
           THEN /\ uploadStatus' = EMPTY
                /\ uploadedFiles' =
                       Append(uploadedFiles, [name |-> uploading[i], id |-> now])
                /\ event' = [kind |-> "uploadResolved", file |-> uploading[i],
                             call |-> i, filename |-> uploading[i]]
           ELSE /\ \E r \in Reasons :
                     /\ uploadStatus' = ERROR_PREFIX \o r
                     /\ event' = [kind |-> "uploadRejected",
                                  file |-> uploading[i], reason |-> r]
                /\ UNCHANGED uploadedFiles
        /\ uploading' = RemoveAt(uploading, i)
        /\ backend' = [backend EXCEPT !.uploads = RemoveAt(@, i)]
    /\ UNCHANGED <<removing, now, conversation>>
    /\ UNCHANGED inputVars

\* handleRemoveFile up to the await, the call reaching the backend.
BackendRemoveFile ==
    /\ Len(removing) < MaxInFlight
    /\ \E i \in 1..Len(uploadedFiles) :
        /\ removing' = Append(removing, uploadedFiles[i].name)
        /\ event' = [kind |-> "removeFile",
                     filename |-> uploadedFiles[i].name]
    /\ backend' = [backend EXCEPT !.deletes = Append(@, "pending")]
    /\ UNCHANGED <<uploadStatus, uploadedFiles, uploading, now, conversation>>
    /\ UNCHANGED inputVars

\* The backend serves one pending delete: it drops the file of that name,
\* or fails (always so when it holds no such file) and changes nothing.
BackendServeDelete ==
    /\ \E i \in 1..Len(removing) :
        /\ backend.deletes[i] = "pending"
        /\ \/ /\ removing[i] \in backend.files
              /\ backend' = [backend EXCEPT !.files = @ \ {removing[i]},
                                            !.deletes[i] = "ok"]
           \/ backend' = [backend EXCEPT !.deletes[i] = "failed"]
    /\ event' = [kind |-> "backend"]
    /\ UNCHANGED <<conversation>>
    /\ UNCHANGED filesVars
    /\ UNCHANGED inputVars

\* handleRemoveFile after the await: the result of a served delete arrives.
BackendDeleteDelivered ==
    /\ \E i \in 1..Len(removing) :
        /\ backend.deletes[i] # "pending"
        /\ IF backend.deletes[i] = "ok"
           THEN /\ LET keep(f) == f.name # removing[i]
                   IN uploadedFiles' = SelectSeq(uploadedFiles, keep)
                /\ event' = [kind |-> "deleteResolved",
                             filename |-> removing[i],
                             before |-> uploadedFiles]
                /\ UNCHANGED uploadStatus
           ELSE /\ \E r \in Reasons :
                     /\ uploadStatus' = ERROR_REMOVING_PREFIX \o r
                     /\ event' = [kind |-> "deleteRejected",
                                  filename |-> removing[i], reason |-> r]
                /\ UNCHANGED uploadedFiles
        /\ removing' = RemoveAt(removing, i)
        /\ backend' = [backend EXCEPT !.deletes = RemoveAt(@, i)]
    /\ UNCHANGED <<uploading, now, conversation>>
    /\ UNCHANGED inputVars

\* ------------------------------------------------------- specifications
Init ==
    /\ component \in Components
    /\ input = EMPTY
    /\ isLoading \in BOOLEAN
    /\ uploadStatus = EMPTY
    /\ uploadedFiles = <<>>
    /\ uploading = <<>>
    /\ removing = <<>>
    /\ now = 0
    /\ msg \in Messages
    /\ event = [kind |-> "mount"]
    /\ conversation \in Conversations
    /\ backend = NoBackend

Next ==
    \/ onChange
    \/ handleSubmit
    \/ handleSubmitJsx
    \/ handleKeyDown
    \/ handleKeyDownJsx
    \/ SetIsLoading
    \/ handleFileChange
    \/ UploadResolved
    \/ UploadRejected
    \/ handleRemoveFile
    \/ DeleteResolved
    \/ DeleteRejected
    \/ Tick
    \/ LoadingUpdate
    \/ StageDataUpdate
    \/ SelectConversation

Spec == Init /\ [][Next]_vars

\* The input controller alone: typing, submitting, keys, the isLoading prop.
InitInput == Init /\ msg = NewMessage /\ conversation = "some"
NextInput ==
    \/ onChange
    \/ handleSubmit
    \/ handleSubmitJsx
    \/ handleKeyDown
    \/ handleKeyDownJsx
    \/ SetIsLoading
SpecInput == InitInput /\ [][NextInput]_vars

\* The attachment tracker alone: uploads, removals and the clock.
InitFiles ==
    Init /\ msg = NewMessage /\ isLoading = FALSE /\ conversation = "some"
NextFiles ==
    \/ handleFileChange
    \/ UploadResolved
    \/ UploadRejected
    \/ handleRemoveFile
    \/ DeleteResolved
    \/ DeleteRejected
    \/ Tick
SpecFiles == InitFiles /\ [][NextFiles]_vars

\* The stage renderer alone: any message, updated by the orchestrator.
InitRender == Init /\ isLoading = FALSE /\ conversation = "some"
NextRender ==
    \/ LoadingUpdate
    \/ StageDataUpdate
SpecRender == InitRender /\ [][NextRender]_vars

\* ------------------------------------------------------------ properties
SubmitStep == event'.kind = "submit"
SubmitSends == StrTruthy(trim(input)) /\ ~isLoading

\* C1 (as stated): a submit event calls onSendMessage exactly once when
\* trim(draft) is non-empty and isLoading is false, and otherwise calls it
\* zero times and leaves the draft unchanged.
C1_SubmitSendsExactlyWhen ==
    [][SubmitStep =>
        IF SubmitSends
        THEN Len(event'.sent) = 1
        ELSE Len(event'.sent) = 0 /\ input' = input]_vars

\* C2 (as stated): the Send button is disabled exactly when a submit in this
\* state would be a no-op, that is, exactly when trim(draft) is empty or
\* isLoading is true.
C2_DisabledIffNoOp ==
    /\ SendDisabled <=> (SubmitResult(input, isLoading).sent = <<>>)
    /\ SendDisabled <=> (~StrTruthy(trim(input)) \/ isLoading)

\* C3 (as stated): a submit that sends passes the trimmed draft to
\* onSendMessage and leaves the draft empty.
C3_SendsTrimmedDraft ==
    [][SubmitStep /\ event'.sent # <<>> =>
        event'.sent = <<trim(input)>> /\ input' = EMPTY]_vars

\* C3 (amended): a submit that sends passes the draft exactly as typed, its
\* leading and trailing whitespace included, and leaves the draft empty.
C3_SendsDraftAsTyped ==
    [][SubmitStep /\ event'.sent # <<>> =>
        event'.sent = <<input>> /\ input' = EMPTY]_vars

C3_Witness ==
    /\ event.kind = "submit"
    /\ event.sent # <<>>
    /\ event.sent[1] # trim(event.sent[1])
    /\ input = EMPTY

\* C4: a key-down of Enter without Shift has the effect of a submit in the
\* same state on the send calls and the draft; a key-down of Enter with
\* Shift calls onSendMessage zero times and leaves the draft as it is.
C4_EnterIsSubmit ==
    [][event'.kind = "keydown" /\ event'.key = "Enter" =>
        IF event'.shiftKey
        THEN event'.sent = <<>> /\ input' = input
        ELSE /\ event'.sent = SubmitResult(input, isLoading).sent
             /\ input' = SubmitResult(input, isLoading).input]_vars

C4_Witness ==
    /\ event.kind = "keydown"
    /\ event.key = "Enter"
    /\ ~event.shiftKey
    /\ Len(event.sent) = 1
    /\ input = EMPTY

\* C5: when an upload resolves with filename f, the attachment list is the
\* list before with one entry appended whose name is f, and the status is
\* the empty string.
C5_UploadSuccessAppends ==
    [][event'.kind = "uploadResolved" =>
        /\ Len(uploadedFiles') = Len(uploadedFiles) + 1
        /\ SubSeq(uploadedFiles', 1, Len(uploadedFiles)) = uploadedFiles
        /\ uploadedFiles'[Len(uploadedFiles')].name = event'.filename
        /\ uploadStatus' = EMPTY]_vars

C5_Witness ==
    /\ event.kind = "uploadResolved"
    /\ Len(uploadedFiles) >= 2
    /\ event.filename # event.file
    /\ uploadedFiles[Len(uploadedFiles)].name = event.filename

\* C6: when an upload fails with reason r, the attachment list is what it
\* was and the status is non-empty and contains r.
C6_UploadFailureKeepsSet ==
    [][event'.kind = "uploadRejected" =>
        /\ uploadedFiles' = uploadedFiles
        /\ uploadStatus' # EMPTY
        /\ Contains(uploadStatus', event'.reason)]_vars

C6_Witness ==
    /\ event.kind = "uploadRejected"
    /\ event.reason # <<>>
    /\ uploadedFiles # <<>>
    /\ uploadStatus = ERROR_PREFIX \o event.reason

\* C7 (as stated): a successful removal of name removes exactly the first
\* entry named name; every other entry, another one of that name included,
\* stays in its place.
C7_RemovesFirstOnly ==
    [][event'.kind = "deleteResolved" =>
        uploadedFiles' = RemoveFirst(uploadedFiles, event'.filename)]_vars

\* C7 (amended): a successful removal of name removes every entry named
\* name; the entries of other names stay, in their original order.
C7_RemovesEveryMatch ==
    [][event'.kind = "deleteResolved" =>
        uploadedFiles' = RemoveAll(uploadedFiles, event'.filename)]_vars

C7_Witness ==
    /\ event.kind = "deleteResolved"
    /\ Len(event.before) = Len(uploadedFiles) + 2
    /\ uploadedFiles # <<>>

\* C8: when a removal of name fails with reason r, the attachment list is
\* what it was, an entry named name that was tracked is still tracked, and
\* the status is a non-empty message that contains r.
C8_RemoveFailureKeepsSet ==
    [][event'.kind = "deleteRejected" =>
        /\ uploadedFiles' = uploadedFiles
        /\ \A i \in 1..Len(uploadedFiles) :
              uploadedFiles[i].name = event'.filename =>
                  \E j \in 1..Len(uploadedFiles') :
                      uploadedFiles'[j] = uploadedFiles[i]
        /\ uploadStatus' # EMPTY
        /\ Contains(uploadStatus', event'.reason)]_vars

C8_Witness ==
    /\ event.kind = "deleteRejected"
    /\ event.reason # <<>>
    /\ \E i \in 1..Len(uploadedFiles) : uploadedFiles[i].name = event.filename
    /\ uploadStatus = ERROR_REMOVING_PREFIX \o event.reason

\* C9 (as stated): whenever the stage3 field of the message is present, the
\* stage-3 result is rendered and the stage-3 spinner is not, whatever
\* loading.stage3 is and even if the response text is empty or missing.
C9_Stage3PresentIsReady ==
    msg.stage3 # Undefined => Shown(3) /\ ~Spinner(3)

\* C9 (amended): whenever the stage3 field is present with a non-empty
\* response text, the stage-3 result is rendered and the stage-3 spinner is
\* not, whatever loading.stage3 is.
C9_Stage3ResponseIsReady ==
    Truthy(Stage3Response(msg)) => Shown(3) /\ ~Spinner(3)

C9_Witness ==
    /\ LoadingFlag(msg, "stage3")
    /\ Truthy(Stage3Response(msg))
    /\ Shown(3)

StageName(n) == CASE n = 1 -> "stage1" [] n = 2 -> "stage2" [] n = 3 -> "stage3"
RenderedStages == IF component = "part_000" THEN {1, 2, 3} ELSE {1, 3}

\* C10 (as stated): for no stage N are the spinner of stage N and the data
\* of stage N both displayed.
C10_NeverSpinnerWithData ==
    \A n \in 1..3 : ~(Spinner(n) /\ Shown(n))

\* C10 (amended): the spinner and the data of a stage are both displayed
\* exactly when the component renders that stage, its loading flag is true,
\* its data is present and, for stage 3, the data has no non-empty response
\* text; so only stage 3 with a response text suppresses a stale flag.
C10_SpinnerWithDataExactly ==
    \A n \in 1..3 :
        (Spinner(n) /\ Shown(n)) <=>
            /\ n \in RenderedStages
            /\ LoadingFlag(msg, StageName(n))
            /\ Truthy(msg[StageName(n)])
            /\ (n = 3 => ~Truthy(Stage3Response(msg)))

C10_Witness ==
    /\ Spinner(1) /\ Shown(1)
    /\ LoadingFlag(msg, "stage3") /\ Shown(3) /\ ~Spinner(3)

\* C11: with loading.stage1 false (or no loading record) and stage1 absent,
\* neither the stage-1 spinner nor the stage-1 result is rendered.
C11_Stage1Absent ==
    ~LoadingFlag(msg, "stage1") /\ ~Truthy(msg.stage1) =>
        ~Spinner(1) /\ ~Shown(1) /\ RenderedStage(msg, 1) = <<>>

C11_Witness ==
    /\ msg.loading.t = "obj"
    /\ ~msg.loading.stage1 /\ msg.loading.stage3
    /\ msg.stage1 = Undefined
    /\ RenderedStage(msg, 1) = <<>>
    /\ RenderedStage(msg, 3) # <<>>

\* C12 (as stated): what is rendered for stage N depends only on the
\* message's loading.stageN and stageN, the stages are rendered in the order
\* 1, 2, 3, and a message with stage1 present, stage2 absent, loading.stage2
\* true (the other flags false) and stage3 absent renders the stage-1
\* result, then the stage-2 spinner, and nothing for stage 3.
C12_StagesIndependent ==
    /\ \A n \in 1..3 : \A m \in Messages :
          /\ m[StageName(n)] = msg[StageName(n)]
          /\ LoadingFlag(m, StageName(n)) = LoadingFlag(msg, StageName(n))
          => RenderedStage(m, n) = RenderedStage(msg, n)
    /\ ( /\ Truthy(msg.stage1) /\ ~Truthy(msg.stage2) /\ ~Truthy(msg.stage3)
         /\ ~LoadingFlag(msg, "stage1")
         /\ LoadingFlag(msg, "stage2")
         /\ ~LoadingFlag(msg, "stage3") )
       => Rendered(msg) = <<"stage1", "spinner2">>

\* C13: selecting a file while an upload is in flight issues one more
\* upload call and cancels none; a completion removes its own call only and
\* appends its entry after every entry completed before it, so the entries
\* stand in call-completion order and none is lost.
C13_ConcurrentUploadsIndependent ==
    [][/\ (event'.kind = "fileChange" /\ event'.file # NoFile) =>
            /\ uploading' = Append(uploading, event'.file)
            /\ uploadedFiles' = uploadedFiles
       /\ event'.kind = "uploadResolved" =>
            /\ uploading' = RemoveAt(uploading, event'.call)
            /\ uploading[event'.call] = event'.file
            /\ Len(uploadedFiles') = Len(uploadedFiles) + 1
            /\ \A k \in 1..Len(uploadedFiles) :
                  uploadedFiles'[k] = uploadedFiles[k]
            /\ uploadedFiles'[Len(uploadedFiles')].name = event'.filename]_vars

\* The upload started second has completed while the one started first is
\* still in flight, after an earlier completion.
C13_Witness ==
    /\ event.kind = "uploadResolved"
    /\ event.call = 2
    /\ Len(uploading) = 1
    /\ Len(uploadedFiles) = 2
    /\ uploadedFiles[2].name = event.filename

\* C14 (as stated): whenever an upload call is in flight the status string
\* is the uploading status.
C14_StatusUploadingWhileInFlight ==
    uploading # <<>> => uploadStatus = UPLOADING

\* C15 (as stated): the ids of the tracked entries are pairwise distinct.
C15_IdsDistinct ==
    \A i, j \in 1..Len(uploadedFiles) :
        i # j => uploadedFiles[i].id # uploadedFiles[j].id

\* C18 (as stated): at most one upload call and at most one removal call is
\* outstanding.
C18_OneCallPerAffordance ==
    Len(uploading) <= 1 /\ Len(removing) <= 1

\* The conversation view alone: the props the parent passes.
InitView == Init
NextView ==
    \/ SetIsLoading
    \/ SelectConversation
    \/ LoadingUpdate
    \/ StageDataUpdate
SpecView == InitView /\ [][NextView]_vars

\* C17 (as stated): the top-level loading indicator is displayed exactly
\* when isLoading is true, whatever the per-stage loading flags are.
C17_IndicatorIffLoading ==
    LoadingIndicator <=> isLoading

\* Composing and attaching together: the draft, submits, successful uploads
\* and removals.
InitSession ==
    Init /\ msg = NewMessage /\ isLoading = FALSE /\ conversation = "some"
NextSession ==
    \/ onChange
    \/ handleSubmit
    \/ handleSubmitJsx
    \/ handleFileChange
    \/ UploadResolved
    \/ handleRemoveFile
    \/ DeleteResolved
SpecSession == InitSession /\ [][NextSession]_vars

\* C16: a submit, sending or not, leaves the attachment list and the status
\* string as they are, and an entry leaves the attachment list only when a
\* removal succeeds.
C16_SubmitKeepsAttachments ==
    [][/\ SubmitStep =>
            uploadedFiles' = uploadedFiles /\ uploadStatus' = uploadStatus
       /\ (\E i \in 1..Len(uploadedFiles) :
              \A j \in 1..Len(uploadedFiles') :
                  uploadedFiles'[j] # uploadedFiles[i])
          => event'.kind = "deleteResolved"]_vars

C16_Witness ==
    /\ event.kind = "submit"
    /\ event.sent # <<>>
    /\ Len(uploadedFiles) >= 2
    /\ uploadStatus # EMPTY

\* The attachment tracker together with the file store it talks to.
InitBackend ==
    Init /\ msg = NewMessage /\ isLoading = FALSE /\ conversation = "some"
NextBackend ==
    \/ BackendFileChange
    \/ BackendServeUpload
    \/ BackendUploadDelivered
    \/ BackendRemoveFile
    \/ BackendServeDelete
    \/ BackendDeleteDelivered
SpecBackend == InitBackend /\ [][NextBackend]_vars

\* C19 (as stated): the attachment list changes only when the result of a
\* successful upload or delete is delivered, and whenever no upload and no
\* removal is in flight the tracked filenames are the filenames the backend
\* holds.
C19_ConsistentWithBackend ==
    /\ [][uploadedFiles' # uploadedFiles =>
            event'.kind \in {"uploadResolved", "deleteResolved"}]_vars
    /\ [](uploading = <<>> /\ removing = <<>> => TrackedNames = backend.files)

====
